---- MODULE Spec2Model ----
(***************************************************************************)
(* LibSoma: loans, fines and book reservations of the library service,    *)
(* with the overdue-fine reconciliation that list_fines runs before it     *)
(* reads its page (src/app/routers/fines.py, loans.py,                     *)
(* books_reservations.py).                                                 *)
(*                                                                         *)
(* Time is counted in ticks, TicksPerDay of them to a day, so that the     *)
(* truncation of timedelta.days is visible.  A nullable column or local is *)
(* a sequence: <<>> is NULL / None, <<v>> is the value v.                  *)
(***************************************************************************)
EXTENDS Integers, Sequences, FiniteSets, TLC

\* ------------------------------------------------------------------ bounds
TicksPerDay == 2
MaxTime == 2
MaxLoans == 2
MaxFines == 2
MaxReservations == 2
MaxBooks == 2

Users == {1, 2}
Books == {1}
Procs == {"w1", "w2"}
SeqWorker == "w1"
TotalCopies == [b \in Books |-> 2]
ManualAmounts == {500}
ManualDescriptions == {<<"Multa manual">>}
Tokens == {"t1", "t2"}
Isbns == {"isbn1", "isbn2"}

\* ------------------------------------------------- parameters of the fine
INITIAL_FINE == 100
DAILY_FINE == 10
GRACE_PERIOD_DAYS == 7

VARIABLES
    now,            \* the clock read by datetime.utcnow() and CURRENT_TIMESTAMP
    books,          \* books.copies_available, by book id
    loans,          \* the rows of table loans
    loan_seq,       \* the next value of loans.id
    fines,          \* the committed rows of table fines
    fine_seq,       \* the next value of fines.id
    pc,             \* where each worker is in its request ("idle": in none)
    current_date,   \* list_fines: current_date
    overdue_loans,  \* list_fines: the rows of overdue_loans not yet visited
    existing_fine,  \* list_fines: existing_fine
    tx,             \* list_fines: the statements of the open transaction
    loan_in_hand,   \* create_loan, return_book: loan, the request or the row read
    book_reservations,  \* the rows of table book_reservations
    reservation_seq,    \* the next value of book_reservations.id
    status,         \* the status code of the last response of a worker
    book_isbn,      \* the id and isbn of the rows create_book added to books
    book_seq,       \* the next value of books.id
    invalidated_tokens, \* the rows of table invalidated_tokens
    access,         \* protected_route: its last answer to each token
    connections     \* list_fines: the connection of the worker's last call

vars == <<now, books, loans, loan_seq, fines, fine_seq, pc, current_date,
          overdue_loans, existing_fine, tx, loan_in_hand, book_reservations,
          reservation_seq, status, book_isbn, book_seq, invalidated_tokens,
          access, connections>>

\* what the handlers of loans, fines and reservations leave alone
catalogAndAuth == <<book_isbn, book_seq, invalidated_tokens, access>>

\* what the handlers of fines and the one-step handlers of loans leave alone
others == <<loan_in_hand, book_reservations, reservation_seq, status>>

\* ----------------------------------------------------------------- helpers
GraceTicks == GRACE_PERIOD_DAYS * TicksPerDay

\* (current_date - loan_date).days: whole days, rounded towards minus infinity
ElapsedDays(t, loan_date) == (t - loan_date) \div TicksPerDay

\* the last day of the grace period counted as overdue
OverdueDaysFromLastGraceDay(t, loan_date) ==
    ElapsedDays(t, loan_date) - GRACE_PERIOD_DAYS + 1

OverdueDays(t, loan_date) == ElapsedDays(t, loan_date) - GRACE_PERIOD_DAYS

\* the first overdue day at the initial fine alone
TotalFineAmountFromZero(overdue_days) ==
    INITIAL_FINE + ((overdue_days - 1) * DAILY_FINE)

\* the daily fine taken off the initial fine
TotalFineAmountFalling(overdue_days) ==
    INITIAL_FINE - (overdue_days * DAILY_FINE)

TotalFineAmount(overdue_days) == INITIAL_FINE + (overdue_days * DAILY_FINE)

Description(overdue_days) ==
    <<"Multa por exceso de dias (", overdue_days, " dias excedidos)">>

\* the rows of a set of rows as a sequence, by ascending id
RECURSIVE ById(_)
ById(S) ==
    IF S = {} THEN <<>>
    ELSE LET r == CHOOSE x \in S : \A y \in S : x.id <= y.id
         IN  <<r>> \o ById(S \ {r})

\* SELECT * FROM loans WHERE returned = FALSE
OpenLoansAndReturned == ById(loans)

OpenLoans == ById({l \in loans : ~l.returned})

\* the lookup with paid = TRUE for paid = FALSE
LatestPaid(F, loan_id) ==
    LET U == {f \in F : f.loan_id = loan_id /\ f.paid}
    IN  IF U = {} THEN {<<>>}
        ELSE {<<f>> : f \in {g \in U : \A h \in U : h.fine_date <= g.fine_date}}

\* the lookup without AND paid = FALSE
LatestFine(F, loan_id) ==
    LET U == {f \in F : f.loan_id = loan_id}
    IN  IF U = {} THEN {<<>>}
        ELSE {<<f>> : f \in {g \in U : \A h \in U : h.fine_date <= g.fine_date}}

\* SELECT * FROM fines WHERE loan_id = %s AND paid = FALSE
\*   ORDER BY fine_date DESC LIMIT 1, then fetchone(): None, or one of the
\* unpaid rows of the loan with the greatest fine_date (SQL leaves the order
\* of rows with equal fine_date open)
LatestUnpaid(F, loan_id) ==
    LET U == {f \in F : f.loan_id = loan_id /\ ~f.paid}
    IN  IF U = {} THEN {<<>>}
        ELSE {<<f>> : f \in {g \in U : \A h \in U : h.fine_date <= g.fine_date}}

\* the UPDATE by loan instead of by row: every row of the fine's loan
UpdateFineOfLoan(F, id, amount, description, fine_date) ==
    {IF \E e \in F : e.id = id /\ e.loan_id = f.loan_id
        THEN [f EXCEPT !.amount = amount, !.description = description,
                       !.fine_date = fine_date]
        ELSE f : f \in F}

\* UPDATE fines SET amount, description, fine_date WHERE id = %s
UpdateFine(F, id, amount, description, fine_date) ==
    {IF f.id = id
        THEN [f EXCEPT !.amount = amount, !.description = description,
                       !.fine_date = fine_date]
        ELSE f : f \in F}

\* the INSERT with user_id and loan_id in each other's place
NewFineSwapped(id, user_id, loan_id, amount, description, fine_date) ==
    [id |-> id, user_id |-> loan_id, loan_id |-> user_id, amount |-> amount,
     description |-> description, fine_date |-> fine_date, paid |-> FALSE]

\* INSERT INTO fines (user_id, loan_id, amount, description, paid, fine_date)
NewFine(id, user_id, loan_id, amount, description, fine_date) ==
    [id |-> id, user_id |-> user_id, loan_id |-> loan_id, amount |-> amount,
     description |-> description, fine_date |-> fine_date, paid |-> FALSE]

\* the loop body without its UPDATE branch: always the INSERT
UpsertAlwaysInsert(existing, loan, overdue_days, t, next_id) ==
    [kind |-> "insert",
     row |-> [id |-> next_id, user_id |-> loan.user_id, loan_id |-> loan.id,
              amount |-> INITIAL_FINE + (overdue_days * DAILY_FINE),
              description |-> <<"Multa por exceso de dias (", overdue_days,
                                " dias excedidos)">>,
              fine_date |-> t, paid |-> FALSE]]

\* the statement the loop body executes for a loan that is overdue_days late:
\* the UPDATE of existing_fine, or the INSERT of a row with the next id
Upsert(existing, loan, overdue_days, t, next_id) ==
    IF existing # <<>>
    THEN [kind |-> "update",
          row |-> [id |-> existing[1].id,
                   amount |-> TotalFineAmount(overdue_days),
                   description |-> Description(overdue_days),
                   fine_date |-> t]]
    ELSE [kind |-> "insert",
          row |-> NewFine(next_id, loan.user_id, loan.id,
                          TotalFineAmount(overdue_days),
                          Description(overdue_days), t)]

\* the table fines with the statements of a transaction applied, in order
RECURSIVE ApplyTx(_, _)
ApplyTx(ops, F) ==
    IF ops = <<>> THEN F
    ELSE LET op == Head(ops)
         IN  ApplyTx(Tail(ops),
                 IF op.kind = "insert" THEN F \cup {op.row}
                 ELSE UpdateFine(F, op.row.id, op.row.amount,
                                 op.row.description, op.row.fine_date))

\* what a statement of worker p reads: the committed rows and its own writes
Visible(p) == ApplyTx(tx[p], fines)

\* the ids of the rows a transaction has updated and so holds locked
LockedBy(p) == {tx[p][i].row.id : i \in {j \in DOMAIN tx[p] : tx[p][j].kind = "update"}}

Locked(id) == \E p \in Procs : id \in LockedBy(p)

AllIdle == \A p \in Procs : pc[p] = "idle"

\* worker p is inside the reconcile loop, its transaction open
Reconciling(p) == pc[p] \in {"loop", "upsert"}

\* ------------------------------------------------------------------- Init
\* The loans table may hold loans made before the run starts: one made a day
\* more than the grace period ago, one made the grace period ago to the tick,
\* one dated by a database clock that is ahead of the application's.
InitLoanDates == {0 - GraceTicks - TicksPerDay, 0 - GraceTicks, 1}

InitLoans ==
    {{}}
    \cup {{[id |-> 1, user_id |-> 2, book_id |-> 1, loan_date |-> a,
            return_date |-> <<>>, returned |-> FALSE]} : a \in InitLoanDates}
    \cup {{[id |-> 1, user_id |-> 2, book_id |-> 1, loan_date |-> a,
            return_date |-> <<>>, returned |-> FALSE],
           [id |-> 2, user_id |-> 1, book_id |-> 1, loan_date |-> b,
            return_date |-> <<>>, returned |-> FALSE]} :
              a \in InitLoanDates, b \in {0 - GraceTicks - TicksPerDay}}

Init ==
    /\ now = 0
    /\ loans \in InitLoans
    /\ loan_seq = Cardinality(loans) + 1
    /\ books = [b \in Books |->
                  TotalCopies[b] - Cardinality({l \in loans : l.book_id = b})]
    /\ fines = {}
    /\ fine_seq = 1
    /\ pc = [p \in Procs |-> "idle"]
    /\ current_date = [p \in Procs |-> 0]
    /\ overdue_loans = [p \in Procs |-> <<>>]
    /\ existing_fine = [p \in Procs |-> <<>>]
    /\ tx = [p \in Procs |-> <<>>]
    /\ loan_in_hand = [p \in Procs |-> <<>>]
    /\ book_reservations = {}
    /\ reservation_seq = 1
    /\ status = [p \in Procs |-> 0]
    /\ book_isbn = {}
    /\ book_seq = 1
    /\ invalidated_tokens = {}
    /\ access = [t \in Tokens |-> "none"]
    /\ connections = [p \in Procs |-> "none"]

\* ---------------------------------------------------------------- actions
locals == <<pc, current_date, overdue_loans, existing_fine, tx>>

Tick ==
    /\ now < MaxTime
    /\ now' = now + 1
    /\ UNCHANGED others
    /\ UNCHANGED <<catalogAndAuth, connections>>
    /\ UNCHANGED <<books, loans, loan_seq, fines, fine_seq, locals>>

\* POST /loans/
CreateLoan(user_id, book_id) ==
    /\ loan_seq <= MaxLoans
    /\ books[book_id] > 0
    /\ ~\E l \in loans : l.book_id = book_id /\ l.user_id = user_id /\ ~l.returned
    /\ loans' = loans \cup {[id |-> loan_seq, user_id |-> user_id,
                             book_id |-> book_id, loan_date |-> now,
                             return_date |-> <<>>, returned |-> FALSE]}
    /\ loan_seq' = loan_seq + 1
    /\ books' = [books EXCEPT ![book_id] = @ - 1]
    /\ UNCHANGED others
    /\ UNCHANGED <<catalogAndAuth, connections>>
    /\ UNCHANGED <<now, fines, fine_seq, locals>>

ReturnBookNoDate(loan_id) ==
    /\ \E loan \in loans :
        /\ loan.id = loan_id
        /\ ~loan.returned
        /\ loans' = (loans \ {loan}) \cup {[loan EXCEPT !.returned = TRUE]}
        /\ books' = [books EXCEPT ![loan.book_id] = @ + 1]
    /\ UNCHANGED others
    /\ UNCHANGED <<catalogAndAuth, connections>>
    /\ UNCHANGED <<now, loan_seq, fines, fine_seq, locals>>

\* PUT /loans/{loan_id}/return
ReturnBook(loan_id) ==
    /\ \E loan \in loans :
        /\ loan.id = loan_id
        /\ ~loan.returned
        /\ loans' = (loans \ {loan}) \cup
                      {[loan EXCEPT !.returned = TRUE, !.return_date = <<now>>]}
        /\ books' = [books EXCEPT ![loan.book_id] = @ + 1]
    /\ UNCHANGED others
    /\ UNCHANGED <<catalogAndAuth, connections>>
    /\ UNCHANGED <<now, loan_seq, fines, fine_seq, locals>>

\* POST /fines/
CreateFine(user_id, loan_id, amount, description) ==
    /\ fine_seq <= MaxFines
    /\ fines' = fines \cup {NewFine(fine_seq, user_id, loan_id, amount, description, now)}
    /\ fine_seq' = fine_seq + 1
    /\ UNCHANGED others
    /\ UNCHANGED <<catalogAndAuth, connections>>
    /\ UNCHANGED <<now, books, loans, loan_seq, locals>>

\* PUT /fines/{fine_id}/pay
PayFine(fine_id) ==
    /\ \E f \in fines : f.id = fine_id
    /\ ~Locked(fine_id)
    /\ fines' = {IF f.id = fine_id THEN [f EXCEPT !.paid = TRUE] ELSE f : f \in fines}
    /\ UNCHANGED others
    /\ UNCHANGED <<catalogAndAuth, connections>>
    /\ UNCHANGED <<now, books, loans, loan_seq, fine_seq, locals>>

\* GET /fines/: conn = get_db_connection(); current_date = utcnow();
\* SELECT * FROM loans WHERE returned = FALSE
ListFinesBegin(p) ==
    /\ pc[p] = "idle"
    /\ pc' = [pc EXCEPT ![p] = "loop"]
    /\ current_date' = [current_date EXCEPT ![p] = now]
    /\ overdue_loans' = [overdue_loans EXCEPT ![p] = OpenLoans]
    /\ connections' = [connections EXCEPT ![p] = "open"]
    /\ UNCHANGED others
    /\ UNCHANGED catalogAndAuth
    /\ UNCHANGED <<now, books, loans, loan_seq, fines, fine_seq, existing_fine,
                   tx>>

ListFinesLookupNoSkip(p) ==
    /\ pc[p] = "loop"
    /\ overdue_loans[p] # <<>>
    /\ LET loan == Head(overdue_loans[p])
       IN  /\ \E e \in LatestUnpaid(Visible(p), loan.id) :
                 existing_fine' = [existing_fine EXCEPT ![p] = e]
           /\ pc' = [pc EXCEPT ![p] = "upsert"]
           /\ UNCHANGED overdue_loans
    /\ UNCHANGED others
    /\ UNCHANGED <<catalogAndAuth, connections>>
    /\ UNCHANGED <<now, books, loans, loan_seq, fines, fine_seq, current_date,
                   tx>>

\* GET /fines/: the head of the loop, up to the SELECT of the unpaid fine
ListFinesLookup(p) ==
    /\ pc[p] = "loop"
    /\ overdue_loans[p] # <<>>
    /\ LET loan == Head(overdue_loans[p])
           overdue_days == OverdueDays(current_date[p], loan.loan_date)
       IN  IF overdue_days > 0
           THEN /\ \E e \in LatestUnpaid(Visible(p), loan.id) :
                      existing_fine' = [existing_fine EXCEPT ![p] = e]
                /\ pc' = [pc EXCEPT ![p] = "upsert"]
                /\ UNCHANGED overdue_loans
           ELSE /\ overdue_loans' = [overdue_loans EXCEPT ![p] = Tail(@)]
                /\ UNCHANGED <<pc, existing_fine>>
    /\ UNCHANGED others
    /\ UNCHANGED <<catalogAndAuth, connections>>
    /\ UNCHANGED <<now, books, loans, loan_seq, fines, fine_seq, current_date,
                   tx>>

\* GET /fines/: the UPDATE or the INSERT of the loop body.  An UPDATE waits
\* while another transaction holds the row; an INSERT draws the next id.
ListFinesUpsert(p) ==
    /\ pc[p] = "upsert"
    /\ LET loan == Head(overdue_loans[p])
           overdue_days == OverdueDays(current_date[p], loan.loan_date)
           op == Upsert(existing_fine[p], loan, overdue_days, current_date[p], fine_seq)
       IN  /\ IF op.kind = "update"
              THEN /\ \A q \in Procs \ {p} : op.row.id \notin LockedBy(q)
                   /\ UNCHANGED fine_seq
              ELSE /\ fine_seq <= MaxFines
                   /\ fine_seq' = fine_seq + 1
           /\ tx' = [tx EXCEPT ![p] = Append(@, op)]
    /\ pc' = [pc EXCEPT ![p] = "loop"]
    /\ overdue_loans' = [overdue_loans EXCEPT ![p] = Tail(@)]
    /\ existing_fine' = [existing_fine EXCEPT ![p] = <<>>]
    /\ UNCHANGED others
    /\ UNCHANGED <<catalogAndAuth, connections>>
    /\ UNCHANGED <<now, books, loans, loan_seq, fines, current_date>>

ListFinesCommitAfterPage(p) ==
    /\ pc[p] = "loop"
    /\ overdue_loans[p] = <<>>
    /\ tx' = [tx EXCEPT ![p] = <<>>]
    /\ pc' = [pc EXCEPT ![p] = "page"]
    /\ UNCHANGED others
    /\ UNCHANGED <<catalogAndAuth, connections>>
    /\ UNCHANGED <<now, books, loans, loan_seq, fines, fine_seq, current_date,
                   overdue_loans, existing_fine>>

\* GET /fines/: conn.commit() after the loop
ListFinesCommit(p) ==
    /\ pc[p] = "loop"
    /\ overdue_loans[p] = <<>>
    /\ fines' = ApplyTx(tx[p], fines)
    /\ tx' = [tx EXCEPT ![p] = <<>>]
    /\ pc' = [pc EXCEPT ![p] = "page"]
    /\ UNCHANGED others
    /\ UNCHANGED <<catalogAndAuth, connections>>
    /\ UNCHANGED <<now, books, loans, loan_seq, fine_seq, current_date,
                   overdue_loans, existing_fine>>

\* GET /fines/: SELECT * FROM fines LIMIT %s OFFSET %s and the response
ListFinesPage(p) ==
    /\ pc[p] = "page"
    /\ pc' = [pc EXCEPT ![p] = "idle"]
    /\ current_date' = [current_date EXCEPT ![p] = 0]
    /\ UNCHANGED others
    /\ UNCHANGED <<catalogAndAuth, connections>>
    /\ UNCHANGED <<now, books, loans, loan_seq, fines, fine_seq, overdue_loans,
                   existing_fine, tx>>

ListFines(p) ==
    \/ ListFinesBegin(p)
    \/ ListFinesLookup(p)
    \/ ListFinesUpsert(p)
    \/ ListFinesCommit(p)
    \/ ListFinesPage(p)

\* GET /fines/: a statement of the loop raises.  list_fines has no handler
\* around it, so the exception leaves the request before conn.commit(), the
\* connection is left with its open transaction and the locks it holds.
ListFinesFailAutocommit(p) ==
    /\ \/ pc[p] = "loop" /\ overdue_loans[p] # <<>>
       \/ pc[p] = "upsert"
    /\ pc' = [pc EXCEPT ![p] = "failed"]
    /\ fines' = ApplyTx(tx[p], fines)
    /\ overdue_loans' = [overdue_loans EXCEPT ![p] = <<>>]
    /\ existing_fine' = [existing_fine EXCEPT ![p] = <<>>]
    /\ UNCHANGED others
    /\ UNCHANGED <<catalogAndAuth, connections>>
    /\ UNCHANGED <<now, books, loans, loan_seq, fine_seq, current_date, tx>>

ListFinesFail(p) ==
    /\ \/ pc[p] = "loop" /\ overdue_loans[p] # <<>>
       \/ pc[p] = "upsert"
    /\ pc' = [pc EXCEPT ![p] = "failed"]
    /\ overdue_loans' = [overdue_loans EXCEPT ![p] = <<>>]
    /\ existing_fine' = [existing_fine EXCEPT ![p] = <<>>]
    /\ UNCHANGED others
    /\ UNCHANGED <<catalogAndAuth, connections>>
    /\ UNCHANGED <<now, books, loans, loan_seq, fines, fine_seq, current_date,
                   tx>>

\* the connection of the failed request is discarded, never committed: the
\* server rolls its transaction back.  Ids drawn from the sequence stay drawn.
ListFinesDrop(p) ==
    /\ pc[p] = "failed"
    /\ pc' = [pc EXCEPT ![p] = "idle"]
    /\ tx' = [tx EXCEPT ![p] = <<>>]
    /\ current_date' = [current_date EXCEPT ![p] = 0]
    /\ connections' = [connections EXCEPT ![p] = "closed"]
    /\ UNCHANGED others
    /\ UNCHANGED catalogAndAuth
    /\ UNCHANGED <<now, books, loans, loan_seq, fines, fine_seq, overdue_loans,
                   existing_fine>>

\* list_fines has returned (page or 404) without conn.close(): conn was a local
\* of the call, and the connection is closed only when the interpreter
\* collects the object, at a time the handler does not control.
ConnectionCollected(p) ==
    /\ pc[p] = "idle"
    /\ connections[p] = "open"
    /\ connections' = [connections EXCEPT ![p] = "closed"]
    /\ UNCHANGED others
    /\ UNCHANGED catalogAndAuth
    /\ UNCHANGED <<now, books, loans, loan_seq, fines, fine_seq, locals>>

\* ------------------------------------- return_book, statement by statement
fineLocals == <<current_date, overdue_loans, existing_fine, tx>>

\* PUT /loans/{loan_id}/return: SELECT * FROM loans WHERE id = %s and the two
\* checks.  The HTTPException of a check is raised inside the try block, is
\* caught by except Exception, and leaves as a 500 after conn.rollback().
ReturnBookSelect(p, loan_id) ==
    /\ pc[p] = "idle"
    /\ \/ /\ \A l \in loans : l.id # loan_id
          /\ status' = [status EXCEPT ![p] = 500]
          /\ UNCHANGED <<pc, loan_in_hand>>
       \/ \E l \in loans :
           /\ l.id = loan_id
           /\ IF l.returned
              THEN /\ status' = [status EXCEPT ![p] = 500]
                   /\ UNCHANGED <<pc, loan_in_hand>>
              ELSE /\ pc' = [pc EXCEPT ![p] = "return_update"]
                   /\ loan_in_hand' = [loan_in_hand EXCEPT ![p] = <<l>>]
                   /\ UNCHANGED status
    /\ UNCHANGED <<catalogAndAuth, connections>>
    /\ UNCHANGED <<now, books, loans, loan_seq, fines, fine_seq, fineLocals,
                   book_reservations, reservation_seq>>

\* UPDATE loans SET returned = TRUE, return_date = utcnow() WHERE id = %s:
\* waits while another transaction holds the row, then writes it whatever
\* the row holds by then
ReturnBookUpdate(p) ==
    /\ pc[p] = "return_update"
    /\ \A q \in Procs \ {p} :
          ~(pc[q] = "return_commit" /\ loan_in_hand[q][1].id = loan_in_hand[p][1].id)
    /\ pc' = [pc EXCEPT ![p] = "return_commit"]
    /\ loan_in_hand' = [loan_in_hand EXCEPT
                          ![p] = <<[@[1] EXCEPT !.returned = TRUE,
                                                !.return_date = <<now>>]>>]
    /\ UNCHANGED <<catalogAndAuth, connections>>
    /\ UNCHANGED <<now, books, loans, loan_seq, fines, fine_seq, fineLocals,
                   book_reservations, reservation_seq, status>>

\* UPDATE books SET copies_available = copies_available + 1 and conn.commit()
ReturnBookCommit(p) ==
    /\ pc[p] = "return_commit"
    /\ LET row == loan_in_hand[p][1]
       IN  /\ loans' = {IF l.id = row.id
                        THEN [l EXCEPT !.returned = TRUE,
                                       !.return_date = row.return_date]
                        ELSE l : l \in loans}
           /\ books' = [books EXCEPT ![row.book_id] = @ + 1]
    /\ pc' = [pc EXCEPT ![p] = "idle"]
    /\ loan_in_hand' = [loan_in_hand EXCEPT ![p] = <<>>]
    /\ status' = [status EXCEPT ![p] = 200]
    /\ UNCHANGED <<catalogAndAuth, connections>>
    /\ UNCHANGED <<now, loan_seq, fines, fine_seq, fineLocals,
                   book_reservations, reservation_seq>>

\* ------------------------------------- create_loan, statement by statement
\* POST /loans/: the two SELECTs and their checks.  Either HTTPException 400
\* is caught by except Exception and leaves as a 500 after conn.rollback().
CreateLoanCheck(p, user_id, book_id) ==
    /\ pc[p] = "idle"
    /\ loan_seq + Cardinality({q \in Procs : pc[q] = "loan_insert"}) <= MaxLoans
    /\ IF \/ books[book_id] <= 0
          \/ \E l \in loans : l.book_id = book_id /\ l.user_id = user_id
                                 /\ ~l.returned
       THEN /\ status' = [status EXCEPT ![p] = 500]
            /\ UNCHANGED <<pc, loan_in_hand>>
       ELSE /\ pc' = [pc EXCEPT ![p] = "loan_insert"]
            /\ loan_in_hand' = [loan_in_hand EXCEPT
                                  ![p] = <<[user_id |-> user_id,
                                            book_id |-> book_id]>>]
            /\ UNCHANGED status
    /\ UNCHANGED <<catalogAndAuth, connections>>
    /\ UNCHANGED <<now, books, loans, loan_seq, fines, fine_seq, fineLocals,
                   book_reservations, reservation_seq>>

\* INSERT INTO loans (user_id, book_id), UPDATE books SET copies_available =
\* copies_available - 1, conn.commit()
CreateLoanCommit(p) ==
    /\ pc[p] = "loan_insert"
    /\ LET req == loan_in_hand[p][1]
       IN  /\ loans' = loans \cup {[id |-> loan_seq, user_id |-> req.user_id,
                                    book_id |-> req.book_id, loan_date |-> now,
                                    return_date |-> <<>>, returned |-> FALSE]}
           /\ books' = [books EXCEPT ![req.book_id] = @ - 1]
    /\ loan_seq' = loan_seq + 1
    /\ pc' = [pc EXCEPT ![p] = "idle"]
    /\ loan_in_hand' = [loan_in_hand EXCEPT ![p] = <<>>]
    /\ status' = [status EXCEPT ![p] = 200]
    /\ UNCHANGED <<catalogAndAuth, connections>>
    /\ UNCHANGED <<now, fines, fine_seq, fineLocals, book_reservations,
                   reservation_seq>>

CreateLoanFailKeepsInsert(p) ==
    /\ pc[p] = "loan_insert"
    /\ LET req == loan_in_hand[p][1]
       IN  loans' = loans \cup {[id |-> loan_seq, user_id |-> req.user_id,
                                 book_id |-> req.book_id, loan_date |-> now,
                                 return_date |-> <<>>, returned |-> FALSE]}
    /\ loan_seq' = loan_seq + 1
    /\ pc' = [pc EXCEPT ![p] = "idle"]
    /\ loan_in_hand' = [loan_in_hand EXCEPT ![p] = <<>>]
    /\ status' = [status EXCEPT ![p] = 500]
    /\ UNCHANGED <<catalogAndAuth, connections>>
    /\ UNCHANGED <<now, books, fines, fine_seq, fineLocals, book_reservations,
                   reservation_seq>>

\* POST /loans/: the INSERT, the UPDATE of books or conn.commit() raises:
\* except Exception calls conn.rollback() and answers 500.  Nothing of the
\* transaction is kept; an id the INSERT drew from the sequence stays drawn.
CreateLoanFail(p) ==
    /\ pc[p] = "loan_insert"
    /\ loan_seq' \in {loan_seq, loan_seq + 1}
    /\ pc' = [pc EXCEPT ![p] = "idle"]
    /\ loan_in_hand' = [loan_in_hand EXCEPT ![p] = <<>>]
    /\ status' = [status EXCEPT ![p] = 500]
    /\ UNCHANGED <<catalogAndAuth, connections>>
    /\ UNCHANGED <<now, books, loans, fines, fine_seq, fineLocals,
                   book_reservations, reservation_seq>>

\* ------------------------------------------------------ book reservations
resUnchanged == <<now, loans, loan_seq, fines, fine_seq, pc, fineLocals,
                  loan_in_hand>>

\* POST /book-reservations/.  The HTTPException 400 of either check is caught
\* by except Exception and leaves as a 500 after conn.rollback().
CreateBookReservation(p, user_id, book_id) ==
    /\ pc[p] = "idle"
    /\ reservation_seq <= MaxReservations
    /\ IF \/ \E r \in book_reservations :
                r.user_id = user_id /\ r.book_id = book_id /\ r.active
          \/ books[book_id] <= 0
       THEN /\ status' = [status EXCEPT ![p] = 500]
            /\ UNCHANGED <<book_reservations, reservation_seq, books>>
       ELSE /\ book_reservations' = book_reservations \cup
                   {[id |-> reservation_seq, user_id |-> user_id,
                     book_id |-> book_id, reservation_date |-> now,
                     active |-> TRUE]}
            /\ reservation_seq' = reservation_seq + 1
            /\ books' = [books EXCEPT ![book_id] = @ - 1]
            /\ status' = [status EXCEPT ![p] = 200]
    /\ UNCHANGED <<catalogAndAuth, connections>>
    /\ UNCHANGED resUnchanged

\* PUT /book-reservations/{reservation_id}/
UpdateBookReservation(p, reservation_id, user_id, book_id) ==
    /\ pc[p] = "idle"
    /\ IF \E r \in book_reservations : r.id = reservation_id
       THEN /\ book_reservations' =
                   {IF r.id = reservation_id
                    THEN [r EXCEPT !.user_id = user_id, !.book_id = book_id,
                                   !.reservation_date = now]
                    ELSE r : r \in book_reservations}
            /\ status' = [status EXCEPT ![p] = 200]
       ELSE /\ status' = [status EXCEPT ![p] = 404]
            /\ UNCHANGED book_reservations
    /\ UNCHANGED <<books, reservation_seq>>
    /\ UNCHANGED <<catalogAndAuth, connections>>
    /\ UNCHANGED resUnchanged

\* the handler without AND active = TRUE in its SELECT
FulfillBookReservationAgain(p, reservation_id) ==
    /\ pc[p] = "idle"
    /\ IF \E r \in book_reservations : r.id = reservation_id
       THEN \E r \in book_reservations :
               /\ r.id = reservation_id
               /\ book_reservations' =
                     (book_reservations \ {r}) \cup {[r EXCEPT !.active = FALSE]}
               /\ books' = [books EXCEPT ![r.book_id] = @ + 1]
               /\ status' = [status EXCEPT ![p] = 200]
       ELSE /\ status' = [status EXCEPT ![p] = 500]
            /\ UNCHANGED <<book_reservations, books>>
    /\ UNCHANGED reservation_seq
    /\ UNCHANGED <<catalogAndAuth, connections>>
    /\ UNCHANGED resUnchanged

\* PUT /book-reservations/{reservation_id}/fulfill.  The HTTPException 404 is
\* caught by except Exception and leaves as a 500 after conn.rollback().
FulfillBookReservation(p, reservation_id) ==
    /\ pc[p] = "idle"
    /\ IF \E r \in book_reservations : r.id = reservation_id /\ r.active
       THEN \E r \in book_reservations :
               /\ r.id = reservation_id /\ r.active
               /\ book_reservations' =
                     (book_reservations \ {r}) \cup {[r EXCEPT !.active = FALSE]}
               /\ books' = [books EXCEPT ![r.book_id] = @ + 1]
               /\ status' = [status EXCEPT ![p] = 200]
       ELSE /\ status' = [status EXCEPT ![p] = 500]
            /\ UNCHANGED <<book_reservations, books>>
    /\ UNCHANGED reservation_seq
    /\ UNCHANGED <<catalogAndAuth, connections>>
    /\ UNCHANGED resUnchanged

\* ----------------------------------------------------------- book catalog
catalogUnchanged == <<now, books, loans, loan_seq, fines, fine_seq, pc,
                      fineLocals, loan_in_hand, book_reservations,
                      reservation_seq, invalidated_tokens, access, connections>>

\* POST /books/: SELECT * FROM books WHERE isbn = %s, 400 if a row has it,
\* else the INSERT.  Of the new row the model keeps id and isbn.
CreateBook(p, isbn) ==
    /\ pc[p] = "idle"
    /\ book_seq <= MaxBooks
    /\ IF \E b \in book_isbn : b.isbn = isbn
       THEN /\ status' = [status EXCEPT ![p] = 400]
            /\ UNCHANGED <<book_isbn, book_seq>>
       ELSE /\ book_isbn' = book_isbn \cup {[id |-> book_seq, isbn |-> isbn]}
            /\ book_seq' = book_seq + 1
            /\ status' = [status EXCEPT ![p] = 200]
    /\ UNCHANGED catalogUnchanged

\* PUT /books/{book_id}/: 404 if no row has the id, else UPDATE books SET
\* ..., isbn = COALESCE(%s, isbn), ... WHERE id = %s.  isbn is <<>> when the
\* body leaves it out.
UpdateBook(p, book_id, isbn) ==
    /\ pc[p] = "idle"
    /\ IF \E b \in book_isbn : b.id = book_id
       THEN /\ book_isbn' =
                  {IF b.id = book_id /\ isbn # <<>>
                   THEN [b EXCEPT !.isbn = isbn[1]] ELSE b : b \in book_isbn}
            /\ status' = [status EXCEPT ![p] = 200]
       ELSE /\ status' = [status EXCEPT ![p] = 404]
            /\ UNCHANGED book_isbn
    /\ UNCHANGED book_seq
    /\ UNCHANGED catalogUnchanged

\* ------------------------------------------------------------------ tokens
authUnchanged == <<now, books, loans, loan_seq, fines, fine_seq, pc, fineLocals,
                   loan_in_hand, book_reservations, reservation_seq, book_isbn,
                   book_seq, connections>>

\* POST /logout/: INSERT INTO invalidated_tokens (token) VALUES (%s), commit.
\* For a token that is in the table already the INSERT adds a second row or
\* raises, as the table allows; the token stays in the table either way.
Logout(p, token) ==
    /\ pc[p] = "idle"
    /\ invalidated_tokens' = invalidated_tokens \cup {token}
    /\ IF token \in invalidated_tokens
       THEN \E code \in {200, 500} : status' = [status EXCEPT ![p] = code]
       ELSE status' = [status EXCEPT ![p] = 200]
    /\ UNCHANGED access
    /\ UNCHANGED authUnchanged

\* SELECT * FROM invalidated_tokens WHERE token = %s, result is not None
is_token_invalidated(token) == token \in invalidated_tokens

\* the route without the lookup of the token
ProtectedRouteUnchecked(p, token) ==
    /\ pc[p] = "idle"
    /\ status' = [status EXCEPT ![p] = 200]
    /\ access' = [access EXCEPT ![token] = "granted"]
    /\ UNCHANGED invalidated_tokens
    /\ UNCHANGED authUnchanged

\* GET /some_protected_route/
ProtectedRoute(p, token) ==
    /\ pc[p] = "idle"
    /\ IF is_token_invalidated(token)
       THEN /\ status' = [status EXCEPT ![p] = 401]
            /\ access' = [access EXCEPT ![token] = "refused"]
       ELSE /\ status' = [status EXCEPT ![p] = 200]
            /\ access' = [access EXCEPT ![token] = "granted"]
    /\ UNCHANGED invalidated_tokens
    /\ UNCHANGED authUnchanged

\* -------------------------------------------------------- specifications
\* Requests served one after the other by one worker: the fines handlers and
\* return_book, over the loans the table holds.
Next ==
    \/ AllIdle /\ Tick
    \/ AllIdle /\ \E l \in loans : ReturnBook(l.id)
    \/ AllIdle /\ \E l \in loans, a \in ManualAmounts, d \in ManualDescriptions :
                     CreateFine(l.user_id, l.id, a, d)
    \/ AllIdle /\ \E f \in fines : PayFine(f.id)
    \/ ListFines(SeqWorker)

Spec == Init /\ [][Next]_vars

\* Requests served one after the other by one worker, the reconcile pass the
\* only writer of fines besides pay_fine.
NextEngine ==
    \/ AllIdle /\ Tick
    \/ AllIdle /\ \E u \in Users, b \in Books : CreateLoan(u, b)
    \/ AllIdle /\ \E l \in loans : ReturnBook(l.id)
    \/ AllIdle /\ \E f \in fines : PayFine(f.id)
    \/ ListFines(SeqWorker)

SpecEngine == Init /\ [][NextEngine]_vars

\* Reconcile passes one after the other, the next one starting while the call
\* before it, its pass committed, still reads its page: nothing changes loans
\* or fines between the two passes, and both read the same clock.
NoPass == \A p \in Procs : ~Reconciling(p)
NextRerun ==
    \/ NoPass /\ Tick
    \/ AllIdle /\ \E f \in fines : PayFine(f.id)
    \/ AllIdle /\ \E l \in loans, a \in ManualAmounts, d \in ManualDescriptions :
                     CreateFine(l.user_id, l.id, a, d)
    \/ \E p \in Procs : (\A q \in Procs \ {p} : ~Reconciling(q)) /\ ListFines(p)

SpecRerun == Init /\ [][NextRerun]_vars

\* list_fines requests served by several workers at once, statement by
\* statement, the reconcile pass the only writer of fines.
NextRace ==
    \/ Tick
    \/ \E l \in loans : ReturnBook(l.id)
    \/ \E p \in Procs : ListFines(p)

SpecRace == Init /\ [][NextRace]_vars

\* one request at a time, and a list_fines request may fail at any statement
\* of its loop.
NextFail ==
    \/ AllIdle /\ Tick
    \/ AllIdle /\ \E l \in loans, a \in ManualAmounts, d \in ManualDescriptions :
                     CreateFine(l.user_id, l.id, a, d)
    \/ AllIdle /\ \E f \in fines : PayFine(f.id)
    \/ ListFines(SeqWorker)
    \/ ListFinesFail(SeqWorker)
    \/ ListFinesDrop(SeqWorker)

SpecFail == Init /\ [][NextFail]_vars

\* return_book requests served by several workers at once
NextReturnRace ==
    \/ Tick
    \/ \E p \in Procs, l \in loans : ReturnBookSelect(p, l.id)
    \/ \E p \in Procs : ReturnBookUpdate(p)
    \/ \E p \in Procs : ReturnBookCommit(p)

SpecReturnRace == Init /\ [][NextReturnRace]_vars

\* create_loan and return_book requests served by several workers at once
NextLoanRace ==
    \/ Tick
    \/ \E p \in Procs, u \in Users, b \in Books : CreateLoanCheck(p, u, b)
    \/ \E p \in Procs : CreateLoanCommit(p)
    \/ \E p \in Procs, l \in loans : ReturnBookSelect(p, l.id)
    \/ \E p \in Procs : ReturnBookUpdate(p)
    \/ \E p \in Procs : ReturnBookCommit(p)

SpecLoanRace == Init /\ [][NextLoanRace]_vars

\* the reservation handlers, one request at a time
ReservationIds == 1..MaxReservations

NextReservations ==
    \/ Tick
    \/ \E u \in Users, b \in Books : CreateBookReservation(SeqWorker, u, b)
    \/ \E i \in ReservationIds, u \in Users, b \in Books :
          UpdateBookReservation(SeqWorker, i, u, b)
    \/ \E i \in ReservationIds : FulfillBookReservation(SeqWorker, i)

SpecReservations == Init /\ [][NextReservations]_vars

\* the catalog handlers, one request at a time
BookIds == 1..MaxBooks

NextCatalog ==
    \/ Tick
    \/ \E i \in Isbns : CreateBook(SeqWorker, i)
    \/ \E b \in BookIds, i \in {<<>>} \cup {<<j>> : j \in Isbns} :
          UpdateBook(SeqWorker, b, i)

SpecCatalog == Init /\ [][NextCatalog]_vars

\* logout and the protected route, one request at a time
NextAuth ==
    \/ Tick
    \/ \E t \in Tokens : Logout(SeqWorker, t)
    \/ \E t \in Tokens : ProtectedRoute(SeqWorker, t)

SpecAuth == Init /\ [][NextAuth]_vars

\* pay_fine requests served while a list_fines request is in progress
NextPayRace ==
    \/ Tick
    \/ \E f \in fines : PayFine(f.id)
    \/ ListFines(SeqWorker)

SpecPayRace == Init /\ [][NextPayRace]_vars

\* list_fines calls, completed or failed, and the fate of their connections
NextConn ==
    \/ AllIdle /\ Tick
    \/ ListFines(SeqWorker)
    \/ ListFinesFail(SeqWorker)
    \/ ListFinesDrop(SeqWorker)
    \/ ConnectionCollected(SeqWorker)

SpecConn == Init /\ [][NextConn]_vars

\* loans and reservations requested one at a time, none hitting a database
\* error: every refusal is one of the handlers' own business-rule rejections
LoanIds == 1..MaxLoans

NextStatus ==
    \/ \E u \in Users, b \in Books : CreateLoanCheck(SeqWorker, u, b)
    \/ CreateLoanCommit(SeqWorker)
    \/ \E i \in LoanIds : ReturnBookSelect(SeqWorker, i)
    \/ ReturnBookUpdate(SeqWorker)
    \/ ReturnBookCommit(SeqWorker)
    \/ \E u \in Users, b \in Books : CreateBookReservation(SeqWorker, u, b)
    \/ \E i \in ReservationIds : FulfillBookReservation(SeqWorker, i)

SpecStatus == Init /\ [][NextStatus]_vars

\* create_loan requests that commit, are refused or fail, next to returns
NextLoanFail ==
    \/ \E p \in Procs, u \in Users, b \in Books : CreateLoanCheck(p, u, b)
    \/ \E p \in Procs : CreateLoanCommit(p)
    \/ \E p \in Procs : CreateLoanFail(p)
    \/ \E p \in Procs, l \in loans : ReturnBookSelect(p, l.id)
    \/ \E p \in Procs : ReturnBookUpdate(p)
    \/ \E p \in Procs : ReturnBookCommit(p)

SpecLoanFail == Init /\ [][NextLoanFail]_vars

\* the four handlers that move copies_available, served by two workers
NextCopiesRace ==
    \/ \E p \in Procs, u \in Users, b \in Books : CreateLoanCheck(p, u, b)
    \/ \E p \in Procs : CreateLoanCommit(p)
    \/ \E p \in Procs, l \in loans : ReturnBookSelect(p, l.id)
    \/ \E p \in Procs : ReturnBookUpdate(p)
    \/ \E p \in Procs : ReturnBookCommit(p)
    \/ \E p \in Procs, u \in Users, b \in Books : CreateBookReservation(p, u, b)
    \/ \E p \in Procs, i \in ReservationIds : FulfillBookReservation(p, i)

SpecCopiesRace == Init /\ [][NextCopiesRace]_vars

\* ---------------------------------------------------------------- claims
\* what the claims speak of
LoanFines(F, loan_id) == {f \in F : f.loan_id = loan_id}

DaysLate(loan, t) == ((t - loan.loan_date) \div TicksPerDay) - GRACE_PERIOD_DAYS

OpenAndLate(loan, t) == ~loan.returned /\ DaysLate(loan, t) > 0

\* the step in which worker p commits its reconcile pass
PassCommits(p) == pc[p] = "loop" /\ pc'[p] = "page"

\* worker p has run the statements of its pass and is about to commit them
PassDone(p) == pc[p] = "loop" /\ overdue_loans[p] = <<>>

Staged(p, kind) == {tx[p][i].row : i \in {j \in DOMAIN tx[p] : tx[p][j].kind = kind}}

\* C1: two reconcile passes running at once over the same open loans leave
\* one fine row per overdue loan, not two (here the passes are the only
\* writers of fines, so every row is one a pass inserted).
C1_OneFineRowPerOverdueLoan ==
    \A l \in loans : Cardinality(LoanFines(fines, l.id)) <= 1

\* C2: from an empty ledger, with passes one after the other, pay_fine and
\* return_book, every loan has at most one unpaid fine row.
C2_AtMostOneUnpaidFinePerLoan ==
    \A l \in loans : Cardinality({f \in LoanFines(fines, l.id) : ~f.paid}) <= 1

\* a pass has found the unpaid row of a loan and updated it, in a ledger where
\* a fine was paid before
C2_Witness ==
    /\ PassDone(SeqWorker)
    /\ \E r \in Staged(SeqWorker, "update"), f \in fines, g \in fines :
          f.id = r.id /\ ~f.paid /\ g.paid /\ g.loan_id = f.loan_id

\* C3: a reconcile pass leaves every paid fine row as it is, all its fields.
C3_PaidFinesUntouched ==
    [][(\E p \in Procs : pc[p] # "idle") =>
          \A f \in fines : f.paid => f \in fines']_vars

\* a pass has written a fine for an open, overdue loan that has a paid fine
C3_Witness ==
    /\ PassDone(SeqWorker)
    /\ \E f \in fines, l \in loans :
          /\ f.paid /\ f.loan_id = l.id
          /\ OpenAndLate(l, current_date[SeqWorker])
          /\ \E r \in Staged(SeqWorker, "insert") : r.loan_id = l.id

\* C4: a pass run at t right after a pass run at the same t, nothing changed
\* in between, leaves the fine ledger as the first pass left it.
C4_ReconcileIdempotent ==
    [][\A p \in Procs, q \in Procs :
          (/\ p # q
           /\ pc[p] = "page"
           /\ PassCommits(q)
           /\ current_date[q] = current_date[p]) => fines' = fines]_vars

\* C5: for a loan that stays unreturned and a fine of it that stays unpaid,
\* a pass run at t2 right after a pass run at t1 < t2 does not lower the
\* amount of the fine.
C5_AmountNeverDecreases ==
    [][\A p \in Procs, q \in Procs :
          (/\ p # q
           /\ pc[p] = "page"
           /\ PassCommits(q)
           /\ current_date[q] > current_date[p]) =>
             \A f \in fines, g \in fines' :
                (/\ g.id = f.id /\ ~f.paid /\ ~g.paid
                 /\ \E l \in loans : l.id = f.loan_id /\ ~l.returned)
                => g.amount >= f.amount]_vars

\* C5 for the fines the engine owns: under the same conditions the pass at
\* t2 does not lower the amount of a fine row that the pass at t1 wrote for
\* the loan, overdue at t1.
C5_EngineFineNeverDecreases ==
    [][\A p \in Procs, q \in Procs :
          (/\ p # q
           /\ pc[p] = "page"
           /\ PassCommits(q)
           /\ current_date[q] > current_date[p]) =>
             \A f \in fines, g \in fines' :
                (/\ g.id = f.id /\ ~f.paid /\ ~g.paid
                 /\ \E l \in loans :
                       /\ l.id = f.loan_id
                       /\ OpenAndLate(l, current_date[p])
                       /\ f.fine_date = current_date[p]
                       /\ f.description = <<"Multa por exceso de dias (",
                                            DaysLate(l, current_date[p]),
                                            " dias excedidos)">>)
                => g.amount >= f.amount]_vars

\* the pass at t2 is about to raise the amount that the pass at t1 wrote
C5_Witness ==
    \E p \in Procs, q \in Procs :
       /\ p # q
       /\ pc[p] = "page"
       /\ PassDone(q)
       /\ current_date[q] > current_date[p]
       /\ \E r \in Staged(q, "update"), f \in fines :
             /\ f.id = r.id /\ ~f.paid
             /\ f.fine_date = current_date[p]
             /\ Len(f.description) = 3
             /\ r.amount > f.amount

\* C6: for every open loan d > 0 days past the grace period, the pass leaves
\* a fine of 100 + 10 * d whose description embeds d, and every row the pass
\* writes has that amount and description.
C6_AmountIsInitialPlusDaily ==
    [][PassCommits(SeqWorker) =>
          LET t == current_date[SeqWorker]
              Due(f, l) ==
                  /\ f.amount = INITIAL_FINE + DaysLate(l, t) * DAILY_FINE
                  /\ f.description = <<"Multa por exceso de dias (",
                                       DaysLate(l, t), " dias excedidos)">>
                  /\ f.fine_date = t
          IN  /\ \A l \in loans : OpenAndLate(l, t) =>
                    \E f \in LoanFines(fines', l.id) : Due(f, l)
              /\ \A f \in fines' \ fines :
                    \E l \in loans : l.id = f.loan_id /\ OpenAndLate(l, t) /\ Due(f, l)
       ]_vars

\* a pass has committed the fine of a loan two days past the grace period
C6_Witness ==
    /\ pc[SeqWorker] = "page"
    /\ \E l \in loans, f \in fines :
          /\ OpenAndLate(l, current_date[SeqWorker])
          /\ DaysLate(l, current_date[SeqWorker]) = 2
          /\ f.loan_id = l.id
          /\ f.fine_date = current_date[SeqWorker]
          /\ f.amount = INITIAL_FINE + 2 * DAILY_FINE

\* C7: a pass neither creates nor updates a fine row of an open loan whose
\* whole elapsed days are at most the grace period.
C7_NoFineWithinGrace ==
    [][PassCommits(SeqWorker) =>
          \A l \in loans :
              (~l.returned /\ ElapsedDays(current_date[SeqWorker], l.loan_date)
                                 <= GRACE_PERIOD_DAYS)
              => LoanFines(fines', l.id) = LoanFines(fines, l.id)]_vars

\* a pass that wrote the fine of one loan has passed over another, which is
\* at the grace period exactly and has an unpaid fine row
C7_Witness ==
    /\ pc[SeqWorker] = "page"
    /\ \E l \in loans, f \in fines, g \in fines :
          /\ ~l.returned
          /\ ElapsedDays(current_date[SeqWorker], l.loan_date) = GRACE_PERIOD_DAYS
          /\ f.loan_id = l.id /\ ~f.paid
          /\ g.loan_id # l.id /\ g.fine_date = current_date[SeqWorker]
          /\ Len(g.description) = 3

\* C8: for an open overdue loan that has an unpaid fine row, the pass changes
\* the amount, description and fine_date of one unpaid row of the loan and
\* nothing else of the loan's rows: same ids, user_id, loan_id, paid, and as
\* many rows as before.
C8_UpdatesInPlace ==
    [][PassCommits(SeqWorker) =>
          LET t == current_date[SeqWorker]
          IN  \A l \in loans :
                (OpenAndLate(l, t) /\ \E f \in LoanFines(fines, l.id) : ~f.paid) =>
                  /\ Cardinality(LoanFines(fines', l.id)) =
                        Cardinality(LoanFines(fines, l.id))
                  /\ \E f \in LoanFines(fines, l.id) :
                        /\ ~f.paid
                        /\ LoanFines(fines', l.id) =
                             (LoanFines(fines, l.id) \ {f}) \cup
                             {[id |-> f.id, user_id |-> f.user_id,
                               loan_id |-> f.loan_id, paid |-> FALSE,
                               amount |-> INITIAL_FINE + DaysLate(l, t) * DAILY_FINE,
                               description |-> <<"Multa por exceso de dias (",
                                                 DaysLate(l, t), " dias excedidos)">>,
                               fine_date |-> t]}]_vars

\* a pass has updated the unpaid row of a loan that has a second fine row
C8_Witness ==
    /\ PassDone(SeqWorker)
    /\ \E r \in Staged(SeqWorker, "update"), f \in fines, g \in fines :
          f.id = r.id /\ g.loan_id = f.loan_id /\ g.id # f.id /\ r.amount # f.amount

\* C9: for an open overdue loan with no unpaid fine row, the pass inserts one
\* row: a new id, paid = false, fine_date = the time of the pass, the loan's
\* user_id and loan_id, the computed amount.
C9_InsertsOneFine ==
    [][PassCommits(SeqWorker) =>
          LET t == current_date[SeqWorker]
          IN  \A l \in loans :
                (OpenAndLate(l, t) /\ \A f \in LoanFines(fines, l.id) : f.paid) =>
                  \E n \in fines' :
                    /\ \A f \in fines : f.id # n.id
                    /\ LoanFines(fines', l.id) = LoanFines(fines, l.id) \cup {n}
                    /\ n.user_id = l.user_id /\ n.loan_id = l.id
                    /\ n.paid = FALSE /\ n.fine_date = t
                    /\ n.amount = INITIAL_FINE + DaysLate(l, t) * DAILY_FINE]_vars

\* a pass has inserted a fine for a loan all of whose fine rows are paid
C9_Witness ==
    /\ PassDone(SeqWorker)
    /\ \E r \in Staged(SeqWorker, "insert") :
          /\ LoanFines(fines, r.loan_id) # {}
          /\ \A f \in LoanFines(fines, r.loan_id) : f.paid

\* C10: once the only fine of a loan is paid, a pass adds no fine row for
\* that loan.
C10_NoNewFineAfterPayment ==
    [][PassCommits(SeqWorker) =>
          \A l \in loans :
              (\E g \in fines : g.paid /\ LoanFines(fines, l.id) = {g})
              => LoanFines(fines', l.id) \subseteq LoanFines(fines, l.id)]_vars

\* C10 as amended: once the only fine of a loan is paid, a pass over the loan,
\* still unreturned and overdue, leaves the paid row as it is and adds one
\* unpaid row for the loan.
C10_NewFineAfterPayment ==
    [][PassCommits(SeqWorker) =>
          \A l \in loans, g \in fines :
              (/\ g.paid /\ LoanFines(fines, l.id) = {g}
               /\ OpenAndLate(l, current_date[SeqWorker]))
              => /\ g \in fines'
                 /\ Cardinality(LoanFines(fines', l.id)) = 2
                 /\ \A n \in LoanFines(fines', l.id) \ {g} :
                       /\ ~n.paid /\ n.id # g.id
                       /\ n.amount = INITIAL_FINE
                                       + DaysLate(l, current_date[SeqWorker]) * DAILY_FINE
       ]_vars

\* a pass has inserted a fine for a loan whose only fine row is paid
C10_Witness ==
    /\ PassDone(SeqWorker)
    /\ \E r \in Staged(SeqWorker, "insert"), g \in fines :
          g.paid /\ LoanFines(fines, r.loan_id) = {g}

\* C11: a pass that fails at a statement of its loop commits none of the
\* inserts and updates it made before: from its first statement until its
\* connection is gone the fine ledger stays as it was before the call.
C11_FailedPassCommitsNothing ==
    [][\A p \in Procs :
          (pc'[p] = "failed" \/ pc[p] = "failed") => fines' = fines]_vars

\* a pass has failed at its second loan after it wrote the fine of the first,
\* and the ledger does not hold what it wrote
C11_Witness ==
    /\ pc[SeqWorker] = "failed"
    /\ \/ \E r \in Staged(SeqWorker, "insert") : \A f \in fines : f.id # r.id
       \/ \E r \in Staged(SeqWorker, "update") : r \notin fines

\* C12: a pass that runs after return_book has committed for a loan adds no
\* fine row for the loan and leaves every fine row of the loan as it is.
C12_ReturnedLoansLeftAlone ==
    [][PassCommits(SeqWorker) =>
          \A l \in loans :
              l.returned => LoanFines(fines', l.id) = LoanFines(fines, l.id)]_vars

\* a pass has committed while a returned loan, past the grace period by the
\* time of the pass, has an unpaid fine of an earlier date
C12_Witness ==
    /\ pc[SeqWorker] = "page"
    /\ \E l \in loans, f \in fines :
          /\ l.returned
          /\ DaysLate(l, current_date[SeqWorker]) > 0
          /\ f.loan_id = l.id /\ ~f.paid
          /\ f.fine_date < current_date[SeqWorker]

\* C13: for an open loan for which no fine is due at the time of the pass,
\* the pass removes no fine row of the loan, changes none and adds none, also
\* when the loan has unpaid rows entered through create_fine.
C13_NoFineDueNoTouch ==
    [][PassCommits(SeqWorker) =>
          \A l \in loans :
              (~l.returned /\ DaysLate(l, current_date[SeqWorker]) <= 0) =>
                 /\ \A f \in fines : f.loan_id = l.id => f \in fines'
                 /\ \A g \in fines' : g.loan_id = l.id => g \in fines]_vars

\* a pass has committed and an open loan with no fine due still has the
\* unpaid row that create_fine entered for it
C13_Witness ==
    /\ pc[SeqWorker] = "page"
    /\ \E l \in loans, f \in fines :
          /\ ~l.returned
          /\ DaysLate(l, current_date[SeqWorker]) <= 0
          /\ f.loan_id = l.id /\ ~f.paid
          /\ f.amount \in ManualAmounts
          /\ f.description \in ManualDescriptions

\* C14: for an open overdue loan with several unpaid fine rows the pass
\* rewrites exactly one of them, the one with the greatest fine_date and,
\* among rows of equal fine_date, the greatest id; the loan's other rows stay.
C14_UpdatesLatestHighestId ==
    [][PassCommits(SeqWorker) =>
          LET t == current_date[SeqWorker]
          IN  \A l \in loans :
                LET U == {f \in LoanFines(fines, l.id) : ~f.paid}
                IN  (OpenAndLate(l, t) /\ Cardinality(U) >= 2) =>
                      \E f \in U :
                        /\ \A h \in U :
                              \/ h.fine_date < f.fine_date
                              \/ h.fine_date = f.fine_date /\ h.id <= f.id
                        /\ \A h \in LoanFines(fines, l.id) \ {f} : h \in fines'
                        /\ \E g \in fines' :
                              /\ g.id = f.id
                              /\ g.fine_date = t
                              /\ g.amount = INITIAL_FINE + DaysLate(l, t) * DAILY_FINE
       ]_vars

\* C15: in every state reached through create_loan and return_book a loan
\* has a return_date exactly if it is returned.
C15_ReturnDateIffReturned ==
    \A l \in loans : l.returned <=> (l.return_date # <<>>)

\* create_loan has made a loan after return_book returned another
C15_Witness ==
    /\ now > 1
    /\ \E l \in loans, m \in loans :
          /\ l.returned /\ l.return_date # <<>>
          /\ ~m.returned /\ m.return_date = <<>>
          /\ m.loan_date = now /\ m.id > l.id

\* C16: a loan is returned once: no call of return_book changes a loan that
\* is returned, and copies_available of a book grows only in a step that
\* returns an open loan of the book, by 1.
C16_ReturnedExactlyOnce ==
    [][/\ \A l \in loans : l.returned => l \in loans'
       /\ \A b \in Books :
             books'[b] > books[b] =>
                /\ books'[b] = books[b] + 1
                /\ \E l \in loans : l.book_id = b /\ ~l.returned /\ l \notin loans'
      ]_vars

\* C17: when a list_fines call reads its page the pass of the call is
\* committed, and every unpaid fine of an open overdue loan in the table the
\* page is read from has the amount computed for the call's current_date.
C17_PageShowsCurrentAmounts ==
    pc[SeqWorker] = "page" =>
       /\ tx[SeqWorker] = <<>>
       /\ \A l \in loans, f \in fines :
             (/\ OpenAndLate(l, current_date[SeqWorker])
              /\ f.loan_id = l.id /\ ~f.paid)
             => f.amount = INITIAL_FINE
                             + DaysLate(l, current_date[SeqWorker]) * DAILY_FINE

\* C17 for the row the pass wrote: when a list_fines call reads its page the
\* pass of the call is committed, and every open overdue loan has an unpaid
\* fine dated current_date with the amount computed for current_date.
C17_PageShowsPassCommitted ==
    pc[SeqWorker] = "page" =>
       /\ tx[SeqWorker] = <<>>
       /\ \A l \in loans :
             OpenAndLate(l, current_date[SeqWorker]) =>
                \E f \in fines :
                   /\ f.loan_id = l.id /\ ~f.paid
                   /\ f.fine_date = current_date[SeqWorker]
                   /\ f.amount = INITIAL_FINE
                                   + DaysLate(l, current_date[SeqWorker]) * DAILY_FINE

\* a call is about to read its page after its pass wrote the one fine of a
\* loan that is two days past the grace period
C17_Witness ==
    /\ pc[SeqWorker] = "page"
    /\ current_date[SeqWorker] = now
    /\ \E l \in loans, f \in fines :
          /\ OpenAndLate(l, now)
          /\ DaysLate(l, now) >= 2
          /\ f.loan_id = l.id /\ ~f.paid /\ f.fine_date = now
          /\ f.amount = INITIAL_FINE + DaysLate(l, now) * DAILY_FINE
          /\ fine_seq = 2

\* C18: whatever the order and interleaving of create_loan and return_book
\* calls, no user has two loans of the same book with returned = false.
C18_OneActiveLoanPerUserAndBook ==
    \A l \in loans, m \in loans :
       (/\ l.user_id = m.user_id /\ l.book_id = m.book_id
        /\ ~l.returned /\ ~m.returned) => l.id = m.id

\* C19: whatever the sequence of create_book_reservation,
\* update_book_reservation and fulfill_book_reservation calls, no user has
\* two reservations of the same book with active = true.
C19_OneActiveReservationPerUserAndBook ==
    \A r \in book_reservations, q \in book_reservations :
       (/\ r.user_id = q.user_id /\ r.book_id = q.book_id
        /\ r.active /\ q.active) => r.id = q.id

\* C20: fulfill_book_reservation takes effect once per reservation: a step
\* that turns a reservation inactive changes nothing else of it and adds 1
\* to copies_available of its book; an inactive reservation stays inactive,
\* and copies_available grows in no other step.
C20_FulfilledAtMostOnce ==
    [][/\ \A r \in book_reservations, q \in book_reservations' :
             q.id = r.id =>
                /\ ~r.active => ~q.active
                /\ (r.active /\ ~q.active) =>
                      /\ q = [r EXCEPT !.active = FALSE]
                      /\ books' = [books EXCEPT ![r.book_id] = @ + 1]
       /\ \A b \in Books :
             books'[b] > books[b] =>
                \E r \in book_reservations, q \in book_reservations' :
                   q.id = r.id /\ r.book_id = b /\ r.active /\ ~q.active
      ]_vars

\* every reservation is fulfilled, the copies are back, and the last call,
\* made on a fulfilled reservation, was refused
C20_Witness ==
    /\ reservation_seq > MaxReservations
    /\ \A r \in book_reservations : ~r.active
    /\ books = TotalCopies
    /\ status[SeqWorker] = 500

\* C21: whatever the sequence of create_book and update_book calls, no two
\* book rows have the same isbn.
C21_IsbnUnique ==
    \A a \in book_isbn, b \in book_isbn : a.isbn = b.isbn => a.id = b.id

\* C22: a token that logout has put in invalidated_tokens stays there, and
\* every answer of the protected route is a refusal with 401 for a token
\* that is in the table and access granted for a token that is not.
C22_LogoutInvalidatesToken ==
    [][/\ invalidated_tokens \subseteq invalidated_tokens'
       /\ \A t \in Tokens :
             access'[t] # access[t] =>
                /\ t \in invalidated_tokens => (access'[t] = "refused"
                                                  /\ status'[SeqWorker] = 401)
                /\ t \notin invalidated_tokens => (access'[t] = "granted"
                                                     /\ status'[SeqWorker] = 200)
      ]_vars

\* after the logout of one token the route has refused it with 401, while
\* the token that was never logged out has access
C22_Witness ==
    \E t \in Tokens, u \in Tokens :
       /\ t \in invalidated_tokens /\ access[t] = "refused"
       /\ u \notin invalidated_tokens /\ access[u] = "granted"
       /\ status[SeqWorker] = 401

\* C23: a paid fine keeps its amount, description and fine_date, also when
\* pay_fine commits between the lookup of a pass and the UPDATE of that pass.
C23_PaidFineKeptUnderRace ==
    [][\A f \in fines :
          f.paid => \E g \in fines' :
                       /\ g.id = f.id
                       /\ g.amount = f.amount
                       /\ g.description = f.description
                       /\ g.fine_date = f.fine_date]_vars

\* C24: when a list_fines call has ended, by its response, by the 404 of an
\* empty page or by an exception, the connection it acquired is released.
C24_ConnectionReleasedOnExit ==
    \A p \in Procs : pc[p] \in {"idle", "failed"} => connections[p] # "open"

\* C25: a request refused by a business rule is answered with the status the
\* handler raised for it, 400 or 404; with no database error in play, no
\* request is answered 500.
C25_RejectionStatusReachesClient ==
    \A p \in Procs : status[p] \in {0, 200, 400, 404}

\* C26: create_loan is atomic.  A step that adds loan rows of a book lowers
\* its copies_available by the number of rows added, a step that adds none
\* lowers no copies_available, and a create_loan that ends in an error leaves
\* loans and copies_available as they were.
LoansAdded(b) == {l \in loans' : l.book_id = b /\ \A k \in loans : k.id # l.id}

C26_CreateLoanAtomic ==
    [][/\ \A b \in Books :
             IF LoansAdded(b) # {}
             THEN books'[b] = books[b] - Cardinality(LoansAdded(b))
             ELSE books'[b] >= books[b]
       /\ \A p \in Procs :
             pc[p] = "loan_insert" /\ pc'[p] = "idle" /\ status'[p] = 500
                => loans' = loans /\ books' = books]_vars

\* a create_loan has failed after its INSERT and was answered 500: the id it
\* drew from the sequence is spent and no loan row carries it
C26_Witness ==
    \E p \in Procs :
        /\ status[p] = 500
        /\ pc[p] = "idle"
        /\ loan_seq > 1 + Cardinality(loans)

\* C27: copies_available of a book is never negative, whatever the
\* interleaving of create_loan, create_book_reservation, return_book and
\* fulfill_book_reservation, two requests reading the last copy included.
C27_CopiesNeverNegative ==
    \A b \in Books : books[b] >= 0

====
